---- MODULE Spec2Model ----
(***************************************************************************)
(* Model of packages/gguf/src/estimator.ts (estimateRuntimeRequirement)   *)
(* and of packages/hub/src/vendor/hash-wasm/sha256-wrapper.ts (update).   *)
(*                                                                         *)
(* JavaScript numbers are modelled as extended rationals n/d:              *)
(*   d > 0          a finite number (kept in lowest terms)                 *)
(*   d = 0, n = 1   +Infinity      d = 0, n = -1   -Infinity               *)
(*   d = 0, n = 0   NaN                                                    *)
(* Rounding of IEEE doubles and the sign of zero are not modelled.         *)
(***************************************************************************)
EXTENDS Integers, Sequences, FiniteSets, TLC

VARIABLES input, pc, result, variant, result2,
          shaPc, dataLen, byteUsed, heap, chunks, hashed, calls

vars == <<input, pc, result, variant, result2,
          shaPc, dataLen, byteUsed, heap, chunks, hashed, calls>>

estVars == <<input, pc, result, variant, result2>>
shaVars == <<shaPc, dataLen, byteUsed, heap, chunks, hashed, calls>>

(***************************************************************************)
(* Bounds of the explored inputs.                                          *)
(***************************************************************************)
MaxDim == 2
MaxLayers == 2
MaxTensors == 2
MaxChunks == 2
MaxCalls == 2

(***************************************************************************)
(* JavaScript values.                                                      *)
(***************************************************************************)
Undefined == [t |-> "undefined"]
Num(n, d) == [t |-> "number", n |-> n, d |-> d]
JsInt(n) == Num(n, 1)
Arr(a) == [t |-> "array", a |-> a]
Str(s) == [t |-> "string", s |-> s]
QType(id) == [t |-> "dtype", id |-> id]

NaN == Num(0, 0)
Infinity == Num(1, 0)
Zero == JsInt(0)
One == JsInt(1)

IsNaN(x) == x.d = 0 /\ x.n = 0
IsInf(x) == x.d = 0 /\ x.n # 0
IsFinite(x) == x.d > 0

Abs(n) == IF n < 0 THEN -n ELSE n
Sgn(n) == IF n < 0 THEN -1 ELSE IF n > 0 THEN 1 ELSE 0

RECURSIVE GCD(_, _)
GCD(a, b) == IF b = 0 THEN a ELSE GCD(b, a % b)

\* greatest common divisor used for reducing, 1 when both arguments are 0
Red(a, b) == IF a = 0 /\ b = 0 THEN 1 ELSE GCD(Abs(a), Abs(b))

Norm(n, d) ==
  IF d = 0 THEN Num(Sgn(n), 0)
  ELSE LET g == Red(n, d)
           s == IF d < 0 THEN -1 ELSE 1
       IN Num((s * n) \div g, (s * d) \div g)

\* a * b
Mul(a, b) ==
  IF IsNaN(a) \/ IsNaN(b) THEN NaN
  ELSE LET g1 == Red(a.n, b.d)
           g2 == Red(b.n, a.d)
       IN Norm((a.n \div g1) * (b.n \div g2), (a.d \div g2) * (b.d \div g1))

\* a / b
Div(a, b) == Mul(a, Norm(b.d, b.n))

\* a + b
Add(a, b) ==
  IF IsNaN(a) \/ IsNaN(b) THEN NaN
  ELSE IF IsInf(a) /\ IsInf(b) THEN (IF a.n = b.n THEN a ELSE NaN)
  ELSE IF IsInf(a) THEN a
  ELSE IF IsInf(b) THEN b
  ELSE LET g == Red(a.d, b.d)
       IN Norm(a.n * (b.d \div g) + b.n * (a.d \div g), (a.d \div g) * b.d)

\* a < b, for numbers that are not NaN
Lt(a, b) ==
  IF a = b THEN FALSE
  ELSE IF IsInf(a) THEN a.n < 0
  ELSE IF IsInf(b) THEN b.n > 0
  ELSE a.n * b.d < b.n * a.d

MathMax(a, b) == IF IsNaN(a) \/ IsNaN(b) THEN NaN ELSE IF Lt(a, b) THEN b ELSE a
MathMin(a, b) == IF IsNaN(a) \/ IsNaN(b) THEN NaN ELSE IF Lt(b, a) THEN b ELSE a

\* a ?? b
Nullish(a, b) == IF a.t = "undefined" THEN b ELSE a

\* truthiness of an array element (a number, or undefined past the end)
Truthy(v) == v.t = "number" /\ ~IsNaN(v) /\ v.n # 0

\* a[i] with a 0-based index i
At(a, i) == IF i + 1 \in 1..Len(a) THEN a[i + 1] ELSE Undefined

\* s.startsWith(p)
StartsWith(s, p) == Len(s) >= Len(p) /\ SubSeq(s, 1, Len(p)) = p

\* Number(b) of a BigInt b
NumberOfBigInt(b) == JsInt(b)

(***************************************************************************)
(* estimator.ts                                                            *)
(***************************************************************************)
MEGA == 1000000
GIGA == 1000000000
TO_MEGA == Num(1, MEGA)
TO_GIGA == Num(1, GIGA)

F32 == QType("F32")
F16 == QType("F16")
Q4_0 == QType("Q4_0")
Q8_0 == QType("Q8_0")

\* bits per element of a quantization type
GGML_QUANT_SIZES(q) ==
  CASE q.id = "F32" -> JsInt(32)
    [] q.id = "F16" -> JsInt(16)
    [] q.id = "Q4_0" -> Num(9, 2)
    [] q.id = "Q8_0" -> Num(17, 2)

Eight == JsInt(8)

ArchMamba == <<"m", "a", "m", "b", "a">>
ArchRwkv == <<"r", "w", "k", "v">>
ArchUnknown == <<"u", "n", "k", "n", "o", "w", "n">>

UnsupportedPrefixOnlyMamba(arch) == StartsWith(arch.s, ArchMamba)

\* the test of the throw statement
Unsupported(arch) == StartsWith(arch.s, ArchMamba) \/ StartsWith(arch.s, ArchRwkv)

\* Array(n) succeeds only for an integer 0 <= n < 2^32, else RangeError
ValidArrayLength(n) == IsFinite(n) /\ n.d = 1 /\ n.n >= 0

HeadKvArrKeepFalsy(n_layer, n_head, n_head_kv) ==
  IF n_head_kv.t = "array"
  THEN [i \in 1..n_layer.n |->
          IF At(n_head_kv.a, i - 1).t = "number" THEN At(n_head_kv.a, i - 1) ELSE n_head]
  ELSE [i \in 1..n_layer.n |-> n_head_kv]

\* n_head_kv_arr: Array(n_layer).fill(n_head), then the two loops
HeadKvArr(n_layer, n_head, n_head_kv) ==
  LET filled == [i \in 1..n_layer.n |-> n_head]
  IN IF n_head_kv.t = "array"
     THEN [i \in 1..n_layer.n |->
             IF Truthy(At(n_head_kv.a, i - 1)) THEN At(n_head_kv.a, i - 1) ELSE filled[i]]
     ELSE [i \in 1..n_layer.n |-> n_head_kv]

\* per-head width: key_length / value_length ?? n_embd / n_head
NEmbdHeadNoDivide(len, n_embd, n_head) == Nullish(len, n_embd)

NEmbdHead(len, n_embd, n_head) == Nullish(len, Div(n_embd, n_head))

\* the iterations lo..hi-1 of the cache loop for one of K, V, in order, started
\* with the value cacheMBytes; a longer range is run as its two halves in turn
RECURSIVE CacheLoop(_, _, _, _, _, _)
CacheLoop(lo, hi, cacheMBytes, n_embd_head, n_head_kv_arr, kvType) ==
  IF hi <= lo THEN cacheMBytes
  ELSE IF hi = lo + 1
  THEN LET n_embd_gqa == Mul(n_embd_head, n_head_kv_arr[lo + 1])
       IN Add(cacheMBytes,
              Mul(Mul(n_embd_gqa, Div(GGML_QUANT_SIZES(kvType), Eight)), TO_MEGA))
  ELSE LET mid == (lo + hi) \div 2
           half == CacheLoop(lo, mid, cacheMBytes, n_embd_head, n_head_kv_arr, kvType)
       IN IF half.t = "number"
          THEN CacheLoop(mid, hi, half, n_embd_head, n_head_kv_arr, kvType)
          ELSE half

CacheMBytesFromOne(n_layer, n_embd_head, n_head_kv_arr, kvType) ==
  CacheLoop(1, n_layer, Zero, n_embd_head, n_head_kv_arr, kvType)

\* cacheMBytesK / cacheMBytesV: let ... = 0, then for (let i = 0; i < n_layer; i++)
CacheMBytes(n_layer, n_embd_head, n_head_kv_arr, kvType) ==
  CacheLoop(0, n_layer, Zero, n_embd_head, n_head_kv_arr, kvType)

RECURSIVE NElemFromZero(_)
NElemFromZero(shape) ==
  IF shape = <<>> THEN 0 ELSE NElemFromZero(SubSeq(shape, 1, Len(shape) - 1)) + shape[Len(shape)]

\* tensorInfo.shape.reduce((a, b) => a * b, 1n), on BigInt
RECURSIVE NElem(_)
NElem(shape) ==
  IF shape = <<>> THEN 1 ELSE NElem(SubSeq(shape, 1, Len(shape) - 1)) * shape[Len(shape)]

\* the weight loop over (tensorInfos || [])
RECURSIVE WeightLoop(_)
WeightLoop(tensors) ==
  IF tensors = <<>> THEN Zero
  ELSE LET tensorInfo == tensors[Len(tensors)]
           nElem == NumberOfBigInt(NElem(tensorInfo.shape))
           tensorSizeInBytes == Mul(nElem, Div(GGML_QUANT_SIZES(tensorInfo.dtype), Eight))
       IN Add(WeightLoop(SubSeq(tensors, 1, Len(tensors) - 1)), Mul(tensorSizeInBytes, TO_MEGA))

MBytesWeight(tensorInfos) ==
  WeightLoop(IF tensorInfos.t = "undefined" THEN <<>> ELSE tensorInfos.a)

MoeRatioUnclamped(n_expert, n_expert_used) == MathMax(One, Div(n_expert_used, n_expert))

\* Math.max(1, Math.min(1, n_expert_used) / Math.min(1, n_expert))
MoeRatio(n_expert, n_expert_used) ==
  MathMax(One, Div(MathMin(One, n_expert_used), MathMin(One, n_expert)))

\* floatOpsMatMul(x, y, z)
FloatOpsMatMul(x, y, z) == Mul(Mul(Mul(JsInt(2), x), y), z)

\* floatOpsLayer of one iteration
FloatOpsLayer(n_embd, n_ff, moe_ratio) ==
  Add(Add(Add(Zero, Mul(JsInt(1000), n_embd)),
          Mul(Mul(JsInt(4 * 3), n_embd), n_embd)),
      Mul(Mul(Mul(JsInt(4 * 2), n_embd), n_ff), moe_ratio))

\* the iterations lo..hi-1 of the layer loop, in order, started with the value
\* gFloatOps; a longer range is run as its two halves in turn
RECURSIVE LayerLoopFrom(_, _, _, _, _, _)
LayerLoopFrom(lo, hi, gFloatOps, n_embd, n_ff, moe_ratio) ==
  IF hi <= lo THEN gFloatOps
  ELSE IF hi = lo + 1
  THEN Add(gFloatOps, Mul(FloatOpsLayer(n_embd, n_ff, moe_ratio), TO_GIGA))
  ELSE LET mid == (lo + hi) \div 2
           half == LayerLoopFrom(lo, mid, gFloatOps, n_embd, n_ff, moe_ratio)
       IN IF half.t = "number"
          THEN LayerLoopFrom(mid, hi, half, n_embd, n_ff, moe_ratio)
          ELSE half

\* let gFloatOps = 0, then for (let i = 0; i < n_layer; i++)
LayerLoop(n_layer, n_embd, n_ff, moe_ratio) ==
  LayerLoopFrom(0, n_layer, Zero, n_embd, n_ff, moe_ratio)

GFloatOpsOutputInLoop(n_layer, n_embd, n_ff, n_vocab, moe_ratio) ==
  Add(LayerLoop(n_layer.n, n_embd, n_ff, moe_ratio),
      Mul(JsInt(n_layer.n), Mul(FloatOpsMatMul(n_embd, n_vocab, One), TO_GIGA)))

GFloatOps(n_layer, n_embd, n_ff, n_vocab, moe_ratio) ==
  Add(LayerLoop(n_layer.n, n_embd, n_ff, moe_ratio),
      Mul(FloatOpsMatMul(n_embd, n_vocab, One), TO_GIGA))

\* the call: an estimation record, or the error it throws
estimateRuntimeRequirement(config, metadata, tensorInfos) ==
  LET kvTypeK == Nullish(config.kvTypeK, F16)
      kvTypeV == Nullish(config.kvTypeV, F16)
      arch == Nullish(metadata.architecture, Str(ArchUnknown))
      n_embd == Nullish(metadata.embedding_length, Zero)
      n_head == Nullish(metadata.head_count, Zero)
      n_embd_head_k == NEmbdHead(metadata.key_length, n_embd, n_head)
      n_embd_head_v == NEmbdHead(metadata.value_length, n_embd, n_head)
      n_head_kv == Nullish(metadata.head_count_kv, Arr(<<>>))
      n_layer == Nullish(metadata.block_count, Zero)
      n_expert == Nullish(metadata.expert_count, One)
      n_expert_used == Nullish(metadata.expert_used_count, One)
      n_ff == Nullish(metadata.feed_forward_length, One)
      n_vocab == Nullish(metadata.vocab_size, One)
      moe_ratio == MoeRatio(n_expert, n_expert_used)
  IN IF Unsupported(arch)
     THEN [status |-> "Error", arch |-> arch.s]
     ELSE IF ~ValidArrayLength(n_layer)
     THEN [status |-> "RangeError"]
     ELSE LET n_head_kv_arr == HeadKvArr(n_layer, n_head, n_head_kv)
              cacheMBytesK == CacheMBytes(n_layer.n, n_embd_head_k, n_head_kv_arr, kvTypeK)
              cacheMBytesV == CacheMBytes(n_layer.n, n_embd_head_v, n_head_kv_arr, kvTypeV)
          IN [status |-> "ok",
              perToken |-> Add(cacheMBytesK, cacheMBytesV),
              weight |-> MBytesWeight(tensorInfos),
              gFloatOps |-> GFloatOps(n_layer, n_embd, n_ff, n_vocab, moe_ratio),
              n_head_kv_arr |-> n_head_kv_arr,
              moe_ratio |-> moe_ratio]

(***************************************************************************)
(* Inputs of the estimator.                                                *)
(***************************************************************************)
Dims == {JsInt(i) : i \in 0..MaxDim}
OptDims == Dims \cup {Undefined}

\* block_count: absent, negative, fractional, or 0..MaxLayers
BlockCounts == {Undefined, JsInt(-1), Num(1, 2)} \cup {JsInt(i) : i \in 0..MaxLayers}

\* head_count_kv: absent, a scalar, or a per-layer sequence of up to MaxLayers entries
KvSeqs == UNION {[1..k -> Dims] : k \in 0..MaxLayers}
HeadCountKvs == {Undefined} \cup Dims \cup {Arr(a) : a \in KvSeqs}

Archs == {Undefined,
          Str(<<"l", "l", "a", "m", "a">>),
          Str(<<"M", "a", "m", "b", "a">>),
          Str(<<"m", "a", "m", "b">>),
          Str(<<"m", "a", "m", "b", "a">>),
          Str(<<"m", "a", "m", "b", "a", "-", "2">>),
          Str(<<"x", "m", "a", "m", "b", "a">>),
          Str(<<"r", "w", "k">>),
          Str(<<"r", "w", "k", "v">>),
          Str(<<"r", "w", "k", "v", "-", "v", "5">>),
          Str(<<"R", "W", "K", "V">>)}

Llama == Str(<<"l", "l", "a", "m", "a">>)

KvTypes == {Undefined, F16, Q8_0}

\* shapes of up to two dimensions; block-quantized tensors of up to one
Shapes == UNION {[1..k -> {0, 1, 2}] : k \in 0..2}
Tensors == {[shape |-> sh, dtype |-> F32] : sh \in Shapes}
             \cup {[shape |-> sh, dtype |-> Q4_0] : sh \in {sh \in Shapes : Len(sh) <= 1}}

BaseMetadata ==
  [architecture |-> Llama, embedding_length |-> Undefined, head_count |-> Undefined,
   key_length |-> Undefined, value_length |-> Undefined, head_count_kv |-> Undefined,
   block_count |-> Undefined, expert_count |-> Undefined, expert_used_count |-> Undefined,
   feed_forward_length |-> Undefined, vocab_size |-> Undefined]

BaseConfig == [kvTypeK |-> F16, kvTypeV |-> F16]

MkInput(c, m, t) == [config |-> c, metadata |-> m, tensorInfos |-> t]

\* the architecture name varies
ArchInputs(in) ==
  \E a \in Archs, n \in BlockCounts, kv \in {Undefined, JsInt(1)},
     t \in {Undefined, Arr(<<[shape |-> <<2>>, dtype |-> F32]>>)} :
    in = MkInput(BaseConfig,
                 [BaseMetadata EXCEPT !.architecture = a, !.block_count = n,
                                      !.head_count_kv = kv],
                 t)

\* the fields of the KV cache vary
CacheInputs(in) ==
  \E e \in {Undefined, Zero, JsInt(2)}, h \in OptDims, kv \in HeadCountKvs, n \in BlockCounts :
    in = MkInput(BaseConfig,
                 [BaseMetadata EXCEPT !.embedding_length = e, !.head_count = h,
                                      !.head_count_kv = kv, !.block_count = n],
                 Undefined)

\* explicit head widths and cache quantizations vary
QuantInputs(in) ==
  \E qk \in KvTypes, qv \in KvTypes, kl \in OptDims, vl \in OptDims,
     kv \in {Undefined, JsInt(MaxDim), Arr(<<JsInt(1), JsInt(MaxDim)>>)},
     n \in {JsInt(i) : i \in 0..MaxLayers} :
    in = MkInput([kvTypeK |-> qk, kvTypeV |-> qv],
                 [BaseMetadata EXCEPT !.embedding_length = JsInt(MaxDim),
                                      !.head_count = JsInt(1),
                                      !.key_length = kl, !.value_length = vl,
                                      !.head_count_kv = kv, !.block_count = n],
                 Undefined)

\* the fields of the compute estimate vary
ComputeInputs(in) ==
  \E e \in OptDims, n \in BlockCounts, ec \in OptDims, eu \in OptDims,
     ff \in OptDims, v \in {Undefined, JsInt(2)} :
    in = MkInput(BaseConfig,
                 [BaseMetadata EXCEPT !.embedding_length = e, !.head_count = JsInt(1),
                                      !.block_count = n,
                                      !.expert_count = ec, !.expert_used_count = eu,
                                      !.feed_forward_length = ff, !.vocab_size = v],
                 Undefined)

\* the tensor manifest varies
WeightInputs(in) ==
  \E w \in {<<F16, JsInt(1)>>, <<Q8_0, Undefined>>, <<F16, JsInt(-1)>>} :
    \/ in = MkInput([kvTypeK |-> w[1], kvTypeV |-> F16],
                    [BaseMetadata EXCEPT !.embedding_length = JsInt(1),
                                         !.head_count = JsInt(1), !.block_count = w[2]],
                    Undefined)
    \/ \E k \in 0..MaxTensors : \E a \in [1..k -> Tensors] :
         in = MkInput([kvTypeK |-> w[1], kvTypeV |-> F16],
                      [BaseMetadata EXCEPT !.embedding_length = JsInt(1),
                                           !.head_count = JsInt(1), !.block_count = w[2]],
                      Arr(a))

\* the llama scenario: 4096 wide, 32 heads, 32 layers, 128-wide heads, F16 caches
LlamaScenario ==
  MkInput(BaseConfig,
          [BaseMetadata EXCEPT !.embedding_length = JsInt(4096), !.head_count = JsInt(32),
                               !.head_count_kv = JsInt(32), !.block_count = JsInt(32),
                               !.key_length = JsInt(128), !.value_length = JsInt(128)],
          Undefined)

Inputs(in) ==
  \/ ArchInputs(in)
  \/ CacheInputs(in)
  \/ QuantInputs(in)
  \/ ComputeInputs(in)
  \/ WeightInputs(in)
  \/ in = LlamaScenario

NoResult == [status |-> "none"]

(***************************************************************************)
(* Calls of the estimator.                                                 *)
(***************************************************************************)
Doubled(metadata) ==
  [metadata EXCEPT !.block_count = Mul(JsInt(2), metadata.block_count)]

\* one call estimateRuntimeRequirement(config, metadata, tensorInfos)
Estimate ==
  /\ pc = "ready"
  /\ result' = estimateRuntimeRequirement(input.config, input.metadata, input.tensorInfos)
  /\ pc' = "done"
  /\ UNCHANGED <<input, variant, result2>>
  /\ UNCHANGED shaVars

\* a second call, the same but for a doubled block_count
EstimateDoubled ==
  /\ pc = "done"
  /\ variant = "none"
  /\ input.metadata.block_count.t = "number"
  /\ result2' = estimateRuntimeRequirement(input.config, Doubled(input.metadata),
                                            input.tensorInfos)
  /\ variant' = "doubled"
  /\ UNCHANGED <<input, pc, result>>
  /\ UNCHANGED shaVars

\* a second call, the same but without the tensor manifest
EstimateWithoutTensors ==
  /\ pc = "done"
  /\ variant = "none"
  /\ result2' = estimateRuntimeRequirement(input.config, input.metadata, Undefined)
  /\ variant' = "nomanifest"
  /\ UNCHANGED <<input, pc, result>>
  /\ UNCHANGED shaVars

(***************************************************************************)
(* sha256-wrapper.ts                                                       *)
(*                                                                         *)
(* A run of bytes is a segment [src, lo, hi): bytes lo..hi-1 of the data   *)
(* of update call number src (src = 0: the buffer's initial contents,      *)
(* src = -1: the digest written by _Hash_Final).  The wasm buffer and the  *)
(* bytes handed to the hash are sequences of segments.                     *)
(***************************************************************************)
BUFFER_MAX_SIZE == 8 * 1024 * 1024
DIGEST_SIZE == 32

Seg(src, lo, hi) == [src |-> src, lo |-> lo, hi |-> hi]
SegLen(s) == s.hi - s.lo

Min(a, b) == IF a < b THEN a ELSE b
Max(a, b) == IF a > b THEN a ELSE b

\* append a segment, joining it to the last one when it continues it
AppendSeg(segs, s) ==
  IF SegLen(s) = 0 THEN segs
  ELSE IF segs # <<>> /\ segs[Len(segs)].src = s.src /\ segs[Len(segs)].hi = s.lo
  THEN [segs EXCEPT ![Len(segs)].hi = s.hi]
  ELSE Append(segs, s)

RECURSIVE Concat(_, _)
Concat(a, b) == IF b = <<>> THEN a ELSE Concat(AppendSeg(a, Head(b)), Tail(b))

\* the first n bytes of a sequence of segments
RECURSIVE Take(_, _)
Take(segs, n) ==
  IF n <= 0 \/ segs = <<>> THEN <<>>
  ELSE LET s == Head(segs)
       IN IF SegLen(s) >= n THEN <<Seg(s.src, s.lo, s.lo + n)>>
          ELSE <<s>> \o Take(Tail(segs), n - SegLen(s))

\* all but the first n bytes
RECURSIVE Drop(_, _)
Drop(segs, n) ==
  IF n <= 0 \/ segs = <<>> THEN segs
  ELSE LET s == Head(segs)
       IN IF SegLen(s) > n THEN <<Seg(s.src, s.lo + n, s.hi)>> \o Tail(segs)
          ELSE Drop(Tail(segs), n - SegLen(s))

\* data.subarray(begin, end) of a typed array of len bytes: the view [lo, hi)
Subarray(len, begin, end) ==
  LET b == Min(Max(begin, 0), len)
      e == Min(Max(end, 0), len)
  IN [lo |-> b, hi |-> Max(b, e)]

\* heap.set(bytes): overwrite the start of the buffer
HeapSet(h, s) == Concat(AppendSeg(<<>>, s), Drop(h, SegLen(s)))

\* lengths of the data of one update call, around the multiples of the buffer size
DataLens == {k * BUFFER_MAX_SIZE + r : k \in 0..MaxChunks, r \in {-1, 0, 1}} \cap Nat

InitSha ==
  /\ shaPc = "idle"
  /\ dataLen = 0
  /\ byteUsed = 0
  /\ heap = <<Seg(0, 0, BUFFER_MAX_SIZE)>>
  /\ chunks = <<>>
  /\ hashed = <<>>
  /\ calls = 0

\* init(): wasm._Hash_Init(256)
ShaInit ==
  /\ shaPc = "idle"
  /\ hashed # <<>>
  /\ hashed' = <<>>
  /\ UNCHANGED <<shaPc, dataLen, byteUsed, heap, chunks, calls>>
  /\ UNCHANGED estVars

\* update(data) is entered: let byteUsed = 0
Update ==
  /\ shaPc = "idle"
  /\ calls < MaxCalls
  /\ \E len \in DataLens : dataLen' = len
  /\ byteUsed' = 0
  /\ chunks' = <<>>
  /\ calls' = calls + 1
  /\ shaPc' = "loop"
  /\ UNCHANGED <<heap, hashed>>
  /\ UNCHANGED estVars

\* one iteration of the while loop
UpdateStep ==
  /\ shaPc = "loop"
  /\ byteUsed < dataLen
  /\ LET bytesLeft == dataLen - byteUsed
         length == IF bytesLeft < BUFFER_MAX_SIZE THEN bytesLeft ELSE BUFFER_MAX_SIZE
         view == Subarray(dataLen, byteUsed, length)
         heapSet == HeapSet(heap, Seg(calls, view.lo, view.hi))
         fed == Take(heapSet, length)
     IN /\ heap' = heapSet
        /\ hashed' = Concat(hashed, fed)
        /\ chunks' = Append(chunks, [byteUsed |-> byteUsed, length |-> length,
                                     copied |-> view, fed |-> fed])
        /\ byteUsed' = byteUsed + length
  /\ UNCHANGED <<shaPc, dataLen, calls>>
  /\ UNCHANGED estVars

\* the loop condition fails: update returns
UpdateReturn ==
  /\ shaPc = "loop"
  /\ ~(byteUsed < dataLen)
  /\ shaPc' = "idle"
  /\ UNCHANGED <<dataLen, byteUsed, heap, chunks, hashed, calls>>
  /\ UNCHANGED estVars

\* digest("hex"): _Hash_Final leaves the digest at the start of the buffer
Digest ==
  /\ shaPc = "idle"
  /\ calls > 0
  /\ heap[1].src # -1
  /\ heap' = HeapSet(heap, Seg(-1, 0, DIGEST_SIZE))
  /\ UNCHANGED <<shaPc, dataLen, byteUsed, chunks, hashed, calls>>
  /\ UNCHANGED estVars

InitHash ==
  /\ input = LlamaScenario
  /\ pc = "ready"
  /\ result = NoResult
  /\ variant = "none"
  /\ result2 = NoResult
  /\ InitSha

NextHash == ShaInit \/ Update \/ UpdateStep \/ UpdateReturn \/ Digest

SpecHash == InitHash /\ [][NextHash]_vars

Init ==
  /\ Inputs(input)
  /\ pc = "ready"
  /\ result = NoResult
  /\ variant = "none"
  /\ result2 = NoResult
  /\ InitSha

Next == Estimate \/ EstimateDoubled \/ EstimateWithoutTensors

Spec == Init /\ [][Next]_vars

(***************************************************************************)
(* Properties.                                                             *)
(***************************************************************************)
Returned == pc = "done" /\ result.status = "ok"

\* s begins with p, character by character
HasPrefix(s, p) == Len(s) >= Len(p) /\ \A i \in 1..Len(p) : s[i] = p[i]

ArchName == IF input.metadata.architecture.t = "string"
            THEN input.metadata.architecture.s ELSE ArchUnknown

StateSpaceFamily == HasPrefix(ArchName, ArchMamba) \/ HasPrefix(ArchName, ArchRwkv)

\* a metadata field, or its default
Field(v, default) == IF v.t = "undefined" THEN default ELSE v

BlockCount == Field(input.metadata.block_count, Zero).n
EmbeddingLength == Field(input.metadata.embedding_length, Zero)
HeadCount == Field(input.metadata.head_count, Zero)
FeedForwardLength == Field(input.metadata.feed_forward_length, One)
VocabSize == Field(input.metadata.vocab_size, One)

\* the effective KV head count of layer i (0-based)
EffectiveKv(i) ==
  LET kv == input.metadata.head_count_kv
  IN IF kv.t = "array"
     THEN (IF i < Len(kv.a) /\ kv.a[i + 1] # Zero THEN kv.a[i + 1] ELSE HeadCount)
     ELSE IF kv.t = "number" THEN kv
     ELSE HeadCount

\* C1: an architecture name beginning with "mamba" or "rwkv" makes the call fail
\* with an error naming the architecture, whatever the other inputs are; any
\* other name is not rejected this way.
C1_RejectsStateSpaceFamilies ==
  pc = "done" =>
    /\ StateSpaceFamily => result = [status |-> "Error", arch |-> ArchName]
    /\ ~StateSpaceFamily => result.status # "Error"

C1_Witness ==
  /\ pc = "done"
  /\ ArchName = <<"r", "w", "k", "v", "-", "v", "5">>
  /\ input.metadata.block_count = JsInt(-1)
  /\ input.tensorInfos.t = "array"
  /\ result.status = "Error"

\* C2: for an architecture that is not of a state-space family the call always
\* returns an estimation record, whatever is missing or malformed.
C2_OnlyUnsupportedArchFails ==
  pc = "done" /\ ~StateSpaceFamily => result.status = "ok"

\* C3: the effective per-layer KV head counts are block_count entries; entry i is
\* head_count_kv[i] when head_count_kv is a sequence with a truthy i-th entry,
\* head_count when that entry is missing or falsy or head_count_kv is absent,
\* and the scalar when head_count_kv is a scalar.
C3_HeadCountExpansion ==
  Returned =>
    /\ Len(result.n_head_kv_arr) = BlockCount
    /\ \A i \in 0..(BlockCount - 1) : result.n_head_kv_arr[i + 1] = EffectiveKv(i)

C3_Witness ==
  /\ Returned
  /\ input.metadata.head_count_kv.t = "array"
  /\ Len(input.metadata.head_count_kv.a) = 1
  /\ input.metadata.head_count_kv.a[1] = Zero
  /\ input.metadata.head_count = JsInt(2)
  /\ BlockCount = 2
  /\ result.n_head_kv_arr = <<JsInt(2), JsInt(2)>>

\* key_length / value_length, or embedding_length / head_count
HeadWidth(len) == IF len.t = "undefined" THEN Div(EmbeddingLength, HeadCount) ELSE len

\* bytes per element of a cache type, 16-bit float when unspecified
CacheBytes(q) == Div(GGML_QUANT_SIZES(IF q.t = "undefined" THEN F16 ELSE q), Eight)

\* bytes of the K plus the V cache of layer i (0-based)
CacheBytesOfLayer(i) ==
  Add(Mul(Mul(HeadWidth(input.metadata.key_length), EffectiveKv(i)),
          CacheBytes(input.config.kvTypeK)),
      Mul(Mul(HeadWidth(input.metadata.value_length), EffectiveKv(i)),
          CacheBytes(input.config.kvTypeV)))

\* sum + the bytes of layers lo..hi-1
RECURSIVE CacheBytesFrom(_, _, _)
CacheBytesFrom(lo, hi, sum) ==
  IF hi <= lo THEN sum
  ELSE IF hi = lo + 1 THEN Add(sum, CacheBytesOfLayer(lo))
  ELSE LET mid == (lo + hi) \div 2
           half == CacheBytesFrom(lo, mid, sum)
       IN IF half.t = "number" THEN CacheBytesFrom(mid, hi, half) ELSE half

\* bytes of K plus V cache of layers 0..n-1
CacheBytesOfLayers(n) == CacheBytesFrom(0, n, Zero)

\* C4 as stated: memory.perToken is 1e-6 times the sum over the layers of the
\* K and V cache bytes of the layer; in the llama scenario it is 1.048576 MB,
\* that is 1048576 bytes per token.
C4_PerTokenLlama1048576 ==
  Returned =>
    /\ result.perToken = Mul(TO_MEGA, CacheBytesOfLayers(BlockCount))
    /\ input = LlamaScenario =>
         /\ result.perToken = Norm(1048576, MEGA)
         /\ Mul(result.perToken, JsInt(MEGA)) = JsInt(1048576)

\* C4: memory.perToken is 1e-6 times the sum over the layers of the K and V
\* cache bytes of the layer; in the llama scenario it is 0.524288 MB, that is
\* 524288 bytes per token.
C4_PerTokenIsSumOfKAndV ==
  Returned =>
    /\ result.perToken = Mul(TO_MEGA, CacheBytesOfLayers(BlockCount))
    /\ input = LlamaScenario =>
         /\ result.perToken = Norm(524288, MEGA)
         /\ Mul(result.perToken, JsInt(MEGA)) = JsInt(524288)

C4_Witness ==
  /\ Returned
  /\ input = LlamaScenario
  /\ result.perToken = Norm(32 * (128 * 32 * 2 + 128 * 32 * 2), MEGA)

IsNonNegInt(v) == v.t = "number" /\ v.d = 1 /\ v.n >= 0

\* every present numeric metadata field is a non-negative integer
NonNegIntMetadata ==
  LET m == input.metadata
  IN /\ \A v \in {m.embedding_length, m.head_count, m.key_length, m.value_length,
                  m.block_count, m.expert_count, m.expert_used_count,
                  m.feed_forward_length, m.vocab_size} :
          v.t = "undefined" \/ IsNonNegInt(v)
     /\ \/ m.head_count_kv.t = "undefined"
        \/ IsNonNegInt(m.head_count_kv)
        \/ /\ m.head_count_kv.t = "array"
           /\ \A i \in 1..Len(m.head_count_kv.a) : IsNonNegInt(m.head_count_kv.a[i])

WellDefinedNonNeg(x) == IsFinite(x) /\ x.n >= 0

\* C5: with non-negative integer metadata (any of it absent or zero) the
\* returned perToken, weight and gFloatOps are well-defined numbers >= 0.
C5_NonNegativeOutputs ==
  Returned /\ NonNegIntMetadata =>
    /\ WellDefinedNonNeg(result.perToken)
    /\ WellDefinedNonNeg(result.weight)
    /\ WellDefinedNonNeg(result.gFloatOps)

\* the number of elements of a shape: 1 for the empty shape, 0 with a zero dimension
RECURSIVE ElementCount(_)
ElementCount(shape) ==
  IF shape = <<>> THEN 1
  ELSE IF \E i \in 1..Len(shape) : shape[i] = 0 THEN 0
  ELSE Head(shape) * ElementCount(Tail(shape))

RECURSIVE BytesOfTensors(_)
BytesOfTensors(tensors) ==
  IF tensors = <<>> THEN Zero
  ELSE Add(Mul(JsInt(ElementCount(Head(tensors).shape)),
               Div(GGML_QUANT_SIZES(Head(tensors).dtype), Eight)),
           BytesOfTensors(Tail(tensors)))

\* C6: memory.weight is 1e-6 times the sum over the manifest's tensors of
\* element count times bits/8, whatever the metadata and the config are; it is
\* 0 without a manifest, and leaving the manifest out changes neither the
\* success of the call nor anything but memory.weight.
C6_WeightFromManifestOnly ==
  /\ Returned =>
       result.weight = IF input.tensorInfos.t = "undefined" THEN Zero
                       ELSE Mul(TO_MEGA, BytesOfTensors(input.tensorInfos.a))
  /\ variant = "nomanifest" =>
       /\ result2.status = result.status
       /\ result.status = "ok" =>
            /\ result2.weight = Zero
            /\ result2.perToken = result.perToken
            /\ result2.gFloatOps = result.gFloatOps

C6_Witness ==
  /\ variant = "nomanifest"
  /\ result.status = "ok"
  /\ input.tensorInfos.t = "array"
  /\ Len(input.tensorInfos.a) = 2
  /\ input.tensorInfos.a[1].shape = <<>>
  /\ input.tensorInfos.a[2].shape = <<2, 2>>
  /\ input.tensorInfos.a[1].dtype = Q4_0
  /\ input.config.kvTypeK = Q8_0
  /\ result.weight # Zero
  /\ result2.weight = Zero

\* the mixture-of-experts ratio of the metadata
ExpertRatio ==
  MathMax(One, Div(MathMin(One, Field(input.metadata.expert_used_count, One)),
                   MathMin(One, Field(input.metadata.expert_count, One))))

\* the float ops of one layer for a given ratio
LayerOps(ratio) ==
  Add(Add(Mul(JsInt(1000), EmbeddingLength),
          Mul(JsInt(12), Mul(EmbeddingLength, EmbeddingLength))),
      Mul(Mul(JsInt(8), Mul(EmbeddingLength, FeedForwardLength)), ratio))

\* the float ops of the output projection
OutputOps == Mul(JsInt(2), Mul(EmbeddingLength, VocabSize))

\* 1e-9 * (layers + 2EV), with the factor 1e-9 distributed over the sum
GigaOps(layers) == Add(Mul(layers.count, Mul(TO_GIGA, layers.ops)), Mul(TO_GIGA, OutputOps))

\* C7 as stated: gFloatOps = 1e-9 * (block_count * (1000E + 12EE + 8 E FF moe_ratio) + 2EV)
C7_GFloatOpsClosedForm ==
  Returned =>
    result.gFloatOps = GigaOps([count |-> JsInt(BlockCount), ops |-> LayerOps(ExpertRatio)])

\* C7: gFloatOps = 1e-9 * (S + 2EV), S the sum of the per-layer ops over the
\* block_count layers: block_count * (1000E + 12EE + 8 E FF moe_ratio) for
\* block_count >= 1, and 0 for block_count = 0 whatever moe_ratio is.
C7_GFloatOpsSumOverLayers ==
  Returned =>
    result.gFloatOps =
      GigaOps(IF BlockCount = 0 THEN [count |-> Zero, ops |-> Zero]
              ELSE [count |-> JsInt(BlockCount), ops |-> LayerOps(ExpertRatio)])

C7_Witness ==
  /\ Returned
  /\ BlockCount = 0
  /\ input.metadata.expert_count = Zero
  /\ input.metadata.embedding_length = JsInt(1)
  /\ input.metadata.vocab_size = JsInt(2)
  /\ result.gFloatOps = Norm(2 * 1 * 2, GIGA)

BothExpertCountsAbsent ==
  /\ input.metadata.expert_count.t = "undefined"
  /\ input.metadata.expert_used_count.t = "undefined"

BothExpertCountsAtLeastOne ==
  /\ input.metadata.expert_count.t = "number"
  /\ input.metadata.expert_used_count.t = "number"
  /\ ~Lt(input.metadata.expert_count, One)
  /\ ~Lt(input.metadata.expert_used_count, One)

Minus(a, b) == Add(a, Mul(JsInt(-1), b))

\* the doubled call scaled as the claim says
DoublesLinearly ==
  /\ result2.perToken = Mul(JsInt(2), result.perToken)
  /\ Minus(result2.gFloatOps, Mul(TO_GIGA, OutputOps))
       = Mul(JsInt(2), Minus(result.gFloatOps, Mul(TO_GIGA, OutputOps)))
  /\ result2.weight = result.weight

BothReturned == variant = "doubled" /\ result.status = "ok" /\ result2.status = "ok"

\* C9 as stated: doubling block_count doubles perToken and the per-layer part
\* of gFloatOps and leaves weight and the output term unchanged, for
\* head_count_kv a scalar, absent or a per-layer sequence.
C9_DoublingAnyHeadCountKv == BothReturned => DoublesLinearly

\* the effective KV head counts of the 2n layers are all the same
UniformKv == \A i \in 0..(2 * BlockCount - 1) : EffectiveKv(i) = EffectiveKv(0)

\* C9: the same, for head_count_kv a scalar, absent, or a per-layer sequence
\* whose effective per-layer head counts are equal over all 2n layers.
C9_DoublingUniformHeadCountKv == BothReturned /\ UniformKv => DoublesLinearly

C9_Witness ==
  /\ BothReturned
  /\ BlockCount = 1
  /\ input.metadata.head_count_kv = Arr(<<JsInt(1)>>)
  /\ input.metadata.head_count = JsInt(1)
  /\ input.metadata.embedding_length = JsInt(2)
  /\ IsFinite(result.perToken) /\ result.perToken.n > 0
  /\ result2.perToken = Mul(JsInt(2), result.perToken)

\* every byte of the data of the current call, in order
WholeData == AppendSeg(<<>>, Seg(calls, 0, dataLen))

RECURSIVE FedOfChunks(_)
FedOfChunks(cs) ==
  IF cs = <<>> THEN <<>> ELSE Concat(FedOfChunks(SubSeq(cs, 1, Len(cs) - 1)), cs[Len(cs)].fed)

\* C10: each iteration of update copies exactly data[byteUsed .. byteUsed+length-1]
\* into the buffer and hashes as many bytes as it copied, so that when update
\* returns the chunks fed to the hash, concatenated, are the data.
C10_UpdateFeedsEveryByteOnce ==
  /\ \A j \in 1..Len(chunks) :
       /\ chunks[j].copied = [lo |-> chunks[j].byteUsed,
                              hi |-> chunks[j].byteUsed + chunks[j].length]
       /\ chunks[j].length = chunks[j].copied.hi - chunks[j].copied.lo
  /\ shaPc = "idle" /\ calls > 0 => FedOfChunks(chunks) = WholeData

====
